---- MODULE Spec2Model ----
(***************************************************************************)
(* Model of the migration state engine of migrations.py: the revision      *)
(* catalog, the state file written by an atomic replace, and the           *)
(* transactional upgrade of an sqlite3 database.                           *)
(*                                                                         *)
(* The database is the sqlite3 connection opened by run_upgrade with the   *)
(* default isolation level: a transaction is opened implicitly before a    *)
(* data-modifying statement (INSERT/UPDATE/DELETE/REPLACE) only; any other *)
(* statement executed while no transaction is open takes effect            *)
(* immediately.  Leaving the `with connection:` block commits the open     *)
(* transaction, or rolls it back when an exception leaves the block.       *)
(***************************************************************************)
EXTENDS Integers, Sequences, FiniteSets, TLC

\* ------------------------------------------------------------------ bounds
MaxVer == 2
MaxFaults == 1
MaxCreates == 2

\* --------------------------------------------------------------- constants
\* json.dump writes the record to the file object piece by piece
NChunks == 2
CONNECTION_URI == "db.sqlite"

Versions == 1..MaxVer
\* kinds of statement a revision script can hold
Statements == {"ddl", "dml"}
\* reasons given to create_revision, as sequences of characters
Reasons == {<<"a", " ", "b">>}

VARIABLES
    files,         \* migrations/*.sql on disk
    stateFile,     \* content found at self.filename
    tmp,           \* the temporary file of the save in progress
    orphans,       \* temporary files left on disk by earlier saves
    committed,     \* database: committed executions per revision version
    txn,           \* database: versions executed in the open transaction
    inTx,          \* connection.in_transaction
    revisions,     \* self.revisions
    version,       \* self.version
    database_uri,  \* self.database_uri
    pc,            \* position of the engine process
    op,            \* operation in progress
    todo,          \* rest of `ordered` in the loop of upgrade
    successes,     \* local of upgrade
    pre,           \* snapshot taken when the operation was called
    execLog,       \* scripts executed by the current/last upgrade, in order,
                   \* each with whether it ran inside the transaction
    result,        \* outcome of the last finished operation
    faults,        \* failures and crashes injected so far
    clock,         \* number of create_revision calls (the Creation Date)
    output,        \* what display or log printed last
    staged,        \* version of the file a migrate command created, 0 when
                   \* there is none or when an upgrade has succeeded, or was
                   \* started on an engine that is not fresh, since
    procs          \* the processes of two upgrade commands run side by side

vars == <<files, stateFile, tmp, orphans, committed, txn, inTx, revisions,
          version, database_uri, pc, op, todo, successes, pre, execLog,
          result, faults, clock, output, staged, procs>>

diskVars == <<files, stateFile, tmp, orphans>>
dbVars == <<committed, txn, inTx>>
memVars == <<revisions, version, database_uri>>

\* the engine processes of the commands run side by side
Procs == {1, 2}

\* a process that has not constructed its engine yet
NoProc == [pc |-> "start", version |-> 0, loaded |-> 0, todo |-> <<>>,
           successes |-> 0, txn |-> <<>>, inTx |-> FALSE]

\* ------------------------------------------------------------------ files
NoFile == [exists |-> FALSE, version |-> 0, database_uri |-> "", written |-> 0]

Complete(f) == f.exists /\ f.written = NChunks

\* Migrations.dump, as the complete content of a file
dump == [exists |-> TRUE, version |-> version, database_uri |-> database_uri,
         written |-> NChunks]

\* Migrations._load_metadata: the default when the file is absent
_load_metadata ==
    IF stateFile.exists
    THEN [version |-> stateFile.version, database_uri |-> stateFile.database_uri]
    ELSE [version |-> 0, database_uri |-> ""]

\* re.sub(r"\s", "_", reason)
cleaned(reason) ==
    [i \in 1..Len(reason) |-> IF reason[i] = " " THEN "_" ELSE reason[i]]

Key(f) == [version |-> f.version, description |-> f.description]

\* Migrations.get_revisions: one revision per version; of two files with the
\* same version the one the directory scan visits last stays
get_revisions(fs) ==
    { S \in SUBSET { Key(f) : f \in fs } :
        /\ \A v \in { f.version : f \in fs } : \E r \in S : r.version = v
        /\ \A r1, r2 \in S : r1.version = r2.version => r1 = r2 }

\* Migrations.is_next_revision_taken
is_next_revision_taken == \E r \in revisions : r.version = version + 1

RECURSIVE SortAsc(_)
SortAsc(S) ==
    IF S = {} THEN <<>>
    ELSE LET m == CHOOSE r \in S : \A q \in S : r.version <= q.version
         IN <<m>> \o SortAsc(S \ {m})

RECURSIVE SortDesc(_)
SortDesc(S) ==
    IF S = {} THEN <<>>
    ELSE LET m == CHOOSE r \in S : \A q \in S : r.version >= q.version
         IN <<m>> \o SortDesc(S \ {m})

ordered_revisions_desc == SortDesc(revisions)

\* Migrations.ordered_revisions
ordered_revisions == SortAsc(revisions)

\* the test of the loops of upgrade and display
IsPending(r) == r.version > version

\* revision.file.read_text: the content now on disk at the revision's path
FileOf(r) == CHOOSE f \in files : Key(f) = r

RECURSIVE SeqFilterGe(_, _)
SeqFilterGe(s, v) ==
    IF s = <<>> THEN <<>>
    ELSE IF Head(s).version >= v
         THEN <<Head(s)>> \o SeqFilterGe(Tail(s), v)
         ELSE SeqFilterGe(Tail(s), v)

RECURSIVE SeqFilter(_, _)
SeqFilter(s, v) ==
    IF s = <<>> THEN <<>>
    ELSE IF Head(s).version > v
         THEN <<Head(s)>> \o SeqFilter(Tail(s), v)
         ELSE SeqFilter(Tail(s), v)

Snapshot == [version |-> version, stateFile |-> stateFile,
             committed |-> committed, orphans |-> orphans,
             afterOk |-> (result.op = "upgrade" /\ result.status = "ok"),
             nextFiles |-> { f \in files : f.version = version + 1 },
             pending |-> { r.version : r \in { q \in revisions : q.version > version } }]

NoResult == [op |-> "none", status |-> "none", retval |-> 0, at |-> "none"]

Done(o, st, rv, where) == [op |-> o, status |-> st, retval |-> rv, at |-> where]

\* the snapshot kept while no upgrade or create_revision is being looked at
NoPre == [version |-> 0, stateFile |-> NoFile,
          committed |-> [v \in Versions |-> 0], orphans |-> 0,
          afterOk |-> FALSE,
          nextFiles |-> {},
          pending |-> {}]

ghostVars == <<pre, execLog>>

\* -------------------------------------------------------------------- Init
Init ==
    /\ \E vs \in SUBSET Versions :
          files = { [version |-> v, description |-> <<"a", "_", "b">>,
                     stamp |-> 0] : v \in vs }
    /\ stateFile = NoFile
    /\ tmp = NoFile
    /\ orphans = 0
    /\ committed = [v \in Versions |-> 0]
    /\ txn = <<>>
    /\ inTx = FALSE
    /\ revisions \in get_revisions(files)
    /\ version = 0
    /\ database_uri = ""
    /\ pc = "idle"
    /\ op = "none"
    /\ todo = <<>>
    /\ successes = 0
    /\ result = NoResult
    /\ pre = NoPre
    /\ execLog = <<>>
    /\ faults = 0
    /\ clock = 0
    /\ output = <<>>
    /\ staged = 0
    /\ procs = [p \in Procs |-> NoProc]

\* ------------------------------------------------------------ constructor
\* Migrations.__init__ in a new process: scan the directory, load the state
Construct ==
    /\ pc \in {"idle", "dead"}
    /\ ~stateFile.exists \/ Complete(stateFile)
    /\ revisions' \in get_revisions(files)
    /\ version' = _load_metadata.version
    /\ database_uri' = _load_metadata.database_uri
    /\ pc' = "idle"
    /\ result' = NoResult
    /\ pre' = NoPre
    /\ execLog' = <<>>
    /\ output' = <<>>
    /\ UNCHANGED <<diskVars, dbVars, op, todo, successes, faults, clock>>
    /\ UNCHANGED staged
    /\ UNCHANGED procs

\* Migrations.load
load ==
    /\ pc = "idle"
    /\ ~stateFile.exists \/ Complete(stateFile)
    /\ version' = _load_metadata.version
    /\ database_uri' = _load_metadata.database_uri
    /\ result' = Done("load", "ok", 0, "none")
    /\ pre' = NoPre
    /\ execLog' = <<>>
    /\ output' = <<>>
    /\ UNCHANGED <<diskVars, dbVars, revisions, pc, op, todo, successes,
                   faults, clock>>
    /\ UNCHANGED staged
    /\ UNCHANGED procs

\* migrations.database_uri = CONNECTION_URI (command init, line 166, right
\* after the construction)
SetUri ==
    /\ pc = "idle"
    /\ result = NoResult
    /\ database_uri' = CONNECTION_URI
    /\ result' = Done("set_uri", "ok", 0, "none")
    /\ pre' = NoPre
    /\ execLog' = <<>>
    /\ output' = <<>>
    /\ UNCHANGED <<diskVars, dbVars, revisions, version, pc, op, todo,
                   successes, faults, clock>>
    /\ UNCHANGED staged
    /\ UNCHANGED procs

\* ----------------------------------------------------------------- errors
RaiseNoRollback ==
    /\ faults < MaxFaults
    /\ faults' = faults + 1
    /\ UNCHANGED <<txn, inTx>>
    /\ result' = Done(op, "error", 0, pc)
    /\ pc' = "idle"
    /\ op' = "none"
    /\ todo' = <<>>
    /\ successes' = 0

\* an exception leaves the operation in progress; when it leaves the
\* `with connection:` block of upgrade the connection rolls back
Raise ==
    /\ faults < MaxFaults
    /\ faults' = faults + 1
    /\ txn' = <<>>
    /\ inTx' = FALSE
    /\ result' = Done(op, "error", 0, pc)
    /\ pc' = "idle"
    /\ op' = "none"
    /\ todo' = <<>>
    /\ successes' = 0

\* ------------------------------------------------------------------- save
SaveOpen ==
    /\ pc = "save_open"
    /\ tmp' = [dump EXCEPT !.written = 0]
    /\ pc' = "save_write"
    /\ UNCHANGED <<files, stateFile, orphans, dbVars, memVars, op, todo,
                   successes, ghostVars, result, faults, clock, output>>
    /\ UNCHANGED staged
    /\ UNCHANGED procs

SaveOpenFail ==
    /\ pc = "save_open"
    /\ Raise
    /\ UNCHANGED <<diskVars, committed, memVars, ghostVars, clock, output>>
    /\ UNCHANGED staged
    /\ UNCHANGED procs

SaveWriteInPlace ==
    /\ pc = "save_write"
    /\ tmp' = [tmp EXCEPT !.written = @ + 1]
    /\ stateFile' = tmp'
    /\ pc' = IF tmp.written + 1 = NChunks THEN "save_replace" ELSE "save_write"
    /\ UNCHANGED <<files, orphans, dbVars, memVars, op, todo, successes,
                   ghostVars, result, faults, clock, output>>
    /\ UNCHANGED staged
    /\ UNCHANGED procs

SaveWrite ==
    /\ pc = "save_write"
    /\ tmp' = [tmp EXCEPT !.written = @ + 1]
    /\ pc' = IF tmp.written + 1 = NChunks THEN "save_replace" ELSE "save_write"
    /\ UNCHANGED <<files, stateFile, orphans, dbVars, memVars, op, todo,
                   successes, ghostVars, result, faults, clock, output>>
    /\ UNCHANGED staged
    /\ UNCHANGED procs

SaveWriteFail ==
    /\ pc = "save_write"
    /\ Raise
    /\ orphans' = orphans + 1
    /\ tmp' = NoFile
    /\ UNCHANGED <<files, stateFile, committed, memVars, ghostVars, clock,
                   output>>
    /\ UNCHANGED staged
    /\ UNCHANGED procs

\* os.replace(temp, self.filename), then the return to the caller of save
SaveReplace ==
    /\ pc = "save_replace"
    /\ stateFile' = tmp
    /\ tmp' = NoFile
    /\ IF op = "upgrade"
       THEN /\ pc' = "commit"
            /\ UNCHANGED <<op, result>>
       ELSE /\ pc' = "idle"
            /\ op' = "none"
            /\ result' = Done(op, "ok", version + 1, "none")
    /\ UNCHANGED <<files, orphans, dbVars, memVars, todo, successes,
                   ghostVars, faults, clock, output>>
    /\ UNCHANGED staged
    /\ UNCHANGED procs

SaveReplaceFail ==
    /\ pc = "save_replace"
    /\ Raise
    /\ orphans' = orphans + 1
    /\ tmp' = NoFile
    /\ UNCHANGED <<files, stateFile, committed, memVars, ghostVars, clock,
                   output>>
    /\ UNCHANGED staged
    /\ UNCHANGED procs

\* -------------------------------------------------------- create_revision
create_revision_bump ==
    /\ pc = "idle"
    /\ clock < MaxCreates
    /\ version + 1 <= MaxVer
    /\ \E reason \in Reasons :
         LET new == [version |-> version + 1, description |-> cleaned(reason),
                     stamp |-> clock + 1]
         IN files' = { f \in files : Key(f) # Key(new) } \cup {new}
    /\ clock' = clock + 1
    /\ pre' = Snapshot
    /\ execLog' = <<>>
    /\ output' = <<>>
    /\ result' = NoResult
    /\ op' = "create"
    /\ pc' = "save_open"
    /\ version' = version + 1
    /\ UNCHANGED <<stateFile, tmp, orphans, dbVars, revisions, database_uri,
                   todo, successes, faults>>
    /\ UNCHANGED staged
    /\ UNCHANGED procs

create_revision ==
    /\ pc = "idle"
    /\ clock < MaxCreates
    /\ version + 1 <= MaxVer
    /\ \E reason \in Reasons :
         LET new == [version |-> version + 1, description |-> cleaned(reason),
                     stamp |-> clock + 1]
         IN files' = { f \in files : Key(f) # Key(new) } \cup {new}
    /\ clock' = clock + 1
    /\ pre' = Snapshot
    /\ execLog' = <<>>
    /\ output' = <<>>
    /\ result' = NoResult
    /\ op' = "create"
    /\ pc' = "save_open"
    /\ UNCHANGED <<stateFile, tmp, orphans, dbVars, memVars, todo, successes,
                   faults>>
    /\ UNCHANGED staged
    /\ UNCHANGED procs

\* ---------------------------------------------------------------- migrate
\* the command migrate in a new process: construction, the test of
\* is_next_revision_taken, and create_revision up to its call of save
migrate ==
    /\ pc \in {"idle", "dead"}
    /\ ~stateFile.exists \/ Complete(stateFile)
    /\ \E revs \in get_revisions(files) :
         LET v == _load_metadata.version
         IN /\ revisions' = revs
            /\ version' = v
            /\ database_uri' = _load_metadata.database_uri
            /\ \/ /\ \E r \in revs : r.version = v + 1
                  /\ pc' = "idle"
                  /\ op' = "none"
                  /\ result' = Done("migrate", "taken", 0, "none")
                  /\ pre' = NoPre
                  /\ UNCHANGED <<files, clock, staged>>
               \/ /\ ~\E r \in revs : r.version = v + 1
                  /\ clock < MaxCreates
                  /\ v + 1 <= MaxVer
                  /\ \E reason \in Reasons :
                       LET new == [version |-> v + 1,
                                   description |-> cleaned(reason),
                                   stamp |-> clock + 1]
                       IN files' = { f \in files : Key(f) # Key(new) } \cup {new}
                  /\ clock' = clock + 1
                  /\ staged' = v + 1
                  /\ pc' = "save_open"
                  /\ op' = "migrate"
                  /\ result' = NoResult
                  /\ pre' = [NoPre EXCEPT !.version = v,
                                          !.stateFile = stateFile,
                                          !.committed = committed,
                                          !.orphans = orphans]
    /\ execLog' = <<>>
    /\ output' = <<>>
    /\ UNCHANGED <<stateFile, tmp, orphans, dbVars, todo, successes, faults>>
    /\ UNCHANGED procs

\* ---------------------------------------------------------------- upgrade
\* the engine holds what a construction would give it now, as it does in a
\* command, which constructs its engine
FreshEngine ==
    /\ revisions \in get_revisions(files)
    /\ version = _load_metadata.version
    /\ database_uri \in {_load_metadata.database_uri, CONNECTION_URI}

\* lines 115-118: ordered, successes, entering the with block
UpgradeBegin ==
    /\ pc = "idle"
    /\ op' = "upgrade"
    /\ pc' = "loop"
    /\ todo' = ordered_revisions
    /\ successes' = 0
    /\ pre' = Snapshot
    /\ execLog' = <<>>
    /\ output' = <<>>
    /\ result' = NoResult
    /\ staged' = IF FreshEngine THEN staged ELSE 0
    /\ UNCHANGED <<diskVars, dbVars, memVars, faults, clock>>
    /\ UNCHANGED procs

\* a revision that is not pending
LoopSkip ==
    /\ pc = "loop"
    /\ todo # <<>>
    /\ ~IsPending(Head(todo))
    /\ todo' = Tail(todo)
    /\ UNCHANGED <<diskVars, dbVars, memVars, pc, op, successes, ghostVars,
                   result, faults, clock, output>>
    /\ UNCHANGED staged
    /\ UNCHANGED procs

\* lines 121-123 for a script that executes; sql is the kind of statement
\* read from the file: "dml" modifies data, "ddl" is anything else
ExecOk ==
    /\ pc = "loop"
    /\ todo # <<>>
    /\ IsPending(Head(todo))
    /\ \E f \in files : Key(f) = Head(todo)
    /\ \E sql \in Statements :
         LET v == Head(todo).version
         IN /\ IF inTx \/ sql = "dml"
               THEN /\ txn' = Append(txn, v)
                    /\ inTx' = TRUE
                    /\ UNCHANGED committed
               ELSE /\ committed' = [committed EXCEPT ![v] = @ + 1]
                    /\ UNCHANGED <<txn, inTx>>
            /\ execLog' = Append(execLog, [version |-> v,
                                           inTx |-> (inTx \/ sql = "dml")])
    /\ successes' = successes + 1
    /\ todo' = Tail(todo)
    /\ UNCHANGED <<diskVars, memVars, pc, op, pre, result, faults, clock,
                   output>>
    /\ UNCHANGED staged
    /\ UNCHANGED procs

ExecFailBump ==
    /\ pc = "loop"
    /\ todo # <<>>
    /\ IsPending(Head(todo))
    /\ Raise
    /\ version' = version + successes
    /\ UNCHANGED <<diskVars, committed, revisions, database_uri, ghostVars,
                   clock, output>>
    /\ UNCHANGED staged
    /\ UNCHANGED procs

\* lines 121-122 for a script that fails
ExecFail ==
    /\ pc = "loop"
    /\ todo # <<>>
    /\ IsPending(Head(todo))
    /\ Raise
    /\ UNCHANGED <<diskVars, committed, memVars, ghostVars, clock, output>>
    /\ UNCHANGED staged
    /\ UNCHANGED procs

LoopEndOne ==
    /\ pc = "loop"
    /\ todo = <<>>
    /\ version' = IF successes > 0 THEN version + 1 ELSE version
    /\ pc' = "save_open"
    /\ UNCHANGED <<diskVars, dbVars, revisions, database_uri, op, todo,
                   successes, ghostVars, result, faults, clock, output>>
    /\ UNCHANGED staged
    /\ UNCHANGED procs

\* line 125, and the call of save
LoopEnd ==
    /\ pc = "loop"
    /\ todo = <<>>
    /\ version' = version + successes
    /\ pc' = "save_open"
    /\ UNCHANGED <<diskVars, dbVars, revisions, database_uri, op, todo,
                   successes, ghostVars, result, faults, clock, output>>
    /\ UNCHANGED staged
    /\ UNCHANGED procs

\* lines 127-128, and leaving the with block
Commit ==
    /\ pc = "commit"
    /\ committed' = [v \in Versions |->
                       committed[v] + Cardinality({i \in 1..Len(txn) : txn[i] = v})]
    /\ txn' = <<>>
    /\ inTx' = FALSE
    /\ result' = Done("upgrade", "ok", successes, "none")
    /\ pc' = "idle"
    /\ op' = "none"
    /\ successes' = 0
    /\ UNCHANGED <<diskVars, memVars, todo, ghostVars, faults, clock, output>>
    /\ staged' = 0
    /\ UNCHANGED procs

CommitFail ==
    /\ pc = "commit"
    /\ inTx
    /\ Raise
    /\ UNCHANGED <<diskVars, committed, memVars, ghostVars, clock, output>>
    /\ UNCHANGED staged
    /\ UNCHANGED procs

\* ---------------------------------------------------------------- display
display ==
    /\ pc = "idle"
    /\ output' = [i \in 1..Len(SeqFilter(ordered_revisions, version)) |->
                    FileOf(SeqFilter(ordered_revisions, version)[i])]
    /\ result' = Done("display", "ok", 0, "none")
    /\ pre' = NoPre
    /\ execLog' = <<>>
    /\ UNCHANGED <<diskVars, dbVars, memVars, pc, op, todo, successes,
                   faults, clock>>
    /\ UNCHANGED staged
    /\ UNCHANGED procs

\* ------------------------------------------------------------------ crash
\* the process dies between two steps: its memory is gone, the database
\* discards the open transaction, a temporary file stays on disk
Crash ==
    /\ pc \notin {"idle", "dead"}
    /\ faults < MaxFaults
    /\ faults' = faults + 1
    /\ pc' = "dead"
    /\ op' = "none"
    /\ txn' = <<>>
    /\ inTx' = FALSE
    /\ orphans' = IF tmp.exists THEN orphans + 1 ELSE orphans
    /\ tmp' = NoFile
    /\ result' = Done(op, "crash", 0, pc)
    /\ revisions' = {}
    /\ version' = 0
    /\ database_uri' = ""
    /\ todo' = <<>>
    /\ successes' = 0
    /\ UNCHANGED <<files, stateFile, committed, ghostVars, clock, output>>
    /\ UNCHANGED staged
    /\ UNCHANGED procs

Next ==
    \/ Construct
    \/ load
    \/ SetUri
    \/ SaveOpen
    \/ SaveOpenFail
    \/ SaveWrite
    \/ SaveWriteFail
    \/ SaveReplace
    \/ SaveReplaceFail
    \/ create_revision
    \/ migrate
    \/ UpgradeBegin
    \/ LoopSkip
    \/ ExecOk
    \/ ExecFail
    \/ LoopEnd
    \/ Commit
    \/ CommitFail
    \/ display
    \/ Crash

Spec == Init /\ [][Next]_vars

\* ---------------------------------------------- the catalog and its listing
\* descriptions of the revision files an operator puts in the directory
Descriptions == {<<"a", "_", "b">>, <<"c">>, <<"d">>}

\* rev.description.replace("_", " ")
spaced(d) == [i \in 1..Len(d) |-> IF d[i] = "_" THEN " " ELSE d[i]]

\* reversed(...)
Reversed(s) == [i \in 1..Len(s) |-> s[Len(s) + 1 - i]]

\* the lines printed for a sequence of revisions
Listing(revs) ==
    [i \in 1..Len(revs) |-> [version |-> revs[i].version,
                             description |-> spaced(revs[i].description)]]

\* no engine is running and nothing has been done yet
InitCatalog ==
    /\ files = {}
    /\ stateFile = NoFile
    /\ tmp = NoFile
    /\ orphans = 0
    /\ committed = [v \in Versions |-> 0]
    /\ txn = <<>>
    /\ inTx = FALSE
    /\ revisions = {}
    /\ version = 0
    /\ database_uri = ""
    /\ pc = "dead"
    /\ op = "none"
    /\ todo = <<>>
    /\ successes = 0
    /\ result = NoResult
    /\ pre = NoPre
    /\ execLog = <<>>
    /\ faults = 0
    /\ clock = 0
    /\ output = <<>>
    /\ staged = 0
    /\ procs = [p \in Procs |-> NoProc]

\* between two commands the operator puts a revision file in the directory
PlaceFile ==
    /\ pc = "dead"
    /\ \E v \in Versions, d \in Descriptions :
         LET new == [version |-> v, description |-> d, stamp |-> 0]
         IN /\ new \notin files
            /\ files' = files \cup {new}
    /\ UNCHANGED <<stateFile, tmp, orphans, dbVars, memVars, pc, op, todo,
                   successes, ghostVars, result, faults, clock, output,
                   staged>>
    /\ UNCHANGED procs

\* the command returns and its process ends
Exit ==
    /\ pc = "idle"
    /\ pc' = "dead"
    /\ revisions' = {}
    /\ version' = 0
    /\ database_uri' = ""
    /\ result' = NoResult
    /\ output' = <<>>
    /\ UNCHANGED <<diskVars, dbVars, op, todo, successes, ghostVars, faults,
                   clock, staged>>
    /\ UNCHANGED procs

log_unswapped ==
    /\ pc = "idle"
    /\ \E reverse \in BOOLEAN :
         /\ output' = Listing(IF reverse THEN Reversed(ordered_revisions)
                                         ELSE ordered_revisions)
         /\ result' = Done(IF reverse THEN "log_reverse" ELSE "log",
                           "ok", 0, "none")
    /\ UNCHANGED <<diskVars, dbVars, memVars, pc, op, todo, successes,
                   ghostVars, faults, clock, staged>>
    /\ UNCHANGED procs

\* the command log, after the construction of its engine
log ==
    /\ pc = "idle"
    /\ \E reverse \in BOOLEAN :
         /\ output' = Listing(IF ~reverse THEN Reversed(ordered_revisions)
                                          ELSE ordered_revisions)
         /\ result' = Done(IF reverse THEN "log_reverse" ELSE "log",
                           "ok", 0, "none")
    /\ UNCHANGED <<diskVars, dbVars, memVars, pc, op, todo, successes,
                   ghostVars, faults, clock, staged>>
    /\ UNCHANGED procs

NextCatalog ==
    \/ PlaceFile
    \/ Construct
    \/ log
    \/ Exit

SpecCatalog == InitCatalog /\ [][NextCatalog]_vars

\* ------------------------------------------- two upgrade commands at once
\* what the steps of the processes leave alone
raceFrame == <<files, tmp, orphans, txn, inTx, revisions, version,
               database_uri, pc, op, todo, successes, pre, execLog, result,
               faults, clock, output, staged>>

InitRace ==
    /\ \E vs \in SUBSET Versions :
          files = { [version |-> v, description |-> <<"a", "_", "b">>,
                     stamp |-> 0] : v \in vs }
    /\ stateFile = NoFile
    /\ tmp = NoFile
    /\ orphans = 0
    /\ committed = [v \in Versions |-> 0]
    /\ txn = <<>>
    /\ inTx = FALSE
    /\ revisions = {}
    /\ version = 0
    /\ database_uri = ""
    /\ pc = "dead"
    /\ op = "none"
    /\ todo = <<>>
    /\ successes = 0
    /\ result = NoResult
    /\ pre = NoPre
    /\ execLog = <<>>
    /\ faults = 0
    /\ clock = 0
    /\ output = <<>>
    /\ staged = 0
    /\ procs = [p \in Procs |-> NoProc]

\* another connection holds the write lock of the database
LockedByOther(p) == \E q \in Procs \ {p} : procs[q].inTx

\* the command upgrade of process p up to the loop: construction (scan and
\* load), run_upgrade, lines 115-118
RStart(p) ==
    /\ procs[p].pc = "start"
    /\ \E revs \in get_revisions(files) :
         procs' = [procs EXCEPT ![p] =
                     [@ EXCEPT !.pc = "loop",
                               !.version = _load_metadata.version,
                               !.loaded = _load_metadata.version,
                               !.todo = SortAsc(revs)]]
    /\ UNCHANGED <<stateFile, committed, raceFrame>>

\* a revision that is not pending for p
RSkip(p) ==
    /\ procs[p].pc = "loop"
    /\ procs[p].todo # <<>>
    /\ ~(Head(procs[p].todo).version > procs[p].version)
    /\ procs' = [procs EXCEPT ![p].todo = Tail(@)]
    /\ UNCHANGED <<stateFile, committed, raceFrame>>

RExecReload(p) ==
    /\ procs[p].pc = "loop"
    /\ procs[p].todo # <<>>
    /\ Head(procs[p].todo).version > procs[p].version
    /\ ~LockedByOther(p)
    /\ IF Head(procs[p].todo).version > _load_metadata.version
       THEN \E sql \in Statements :
              LET v == Head(procs[p].todo).version
              IN IF procs[p].inTx \/ sql = "dml"
                 THEN /\ procs' = [procs EXCEPT ![p] =
                                     [@ EXCEPT !.txn = Append(@, v),
                                               !.inTx = TRUE,
                                               !.successes = @ + 1,
                                               !.todo = Tail(@)]]
                      /\ UNCHANGED committed
                 ELSE /\ committed' = [committed EXCEPT ![v] = @ + 1]
                      /\ procs' = [procs EXCEPT ![p] =
                                     [@ EXCEPT !.successes = @ + 1,
                                               !.todo = Tail(@)]]
       ELSE /\ procs' = [procs EXCEPT ![p].todo = Tail(@)]
            /\ UNCHANGED committed
    /\ UNCHANGED <<stateFile, raceFrame>>

\* lines 121-123 in process p; a statement that writes waits for the lock
RExec(p) ==
    /\ procs[p].pc = "loop"
    /\ procs[p].todo # <<>>
    /\ Head(procs[p].todo).version > procs[p].version
    /\ ~LockedByOther(p)
    /\ \E sql \in Statements :
         LET v == Head(procs[p].todo).version
         IN IF procs[p].inTx \/ sql = "dml"
            THEN /\ procs' = [procs EXCEPT ![p] =
                                [@ EXCEPT !.txn = Append(@, v),
                                          !.inTx = TRUE,
                                          !.successes = @ + 1,
                                          !.todo = Tail(@)]]
                 /\ UNCHANGED committed
            ELSE /\ committed' = [committed EXCEPT ![v] = @ + 1]
                 /\ procs' = [procs EXCEPT ![p] =
                                [@ EXCEPT !.successes = @ + 1,
                                          !.todo = Tail(@)]]
    /\ UNCHANGED <<stateFile, raceFrame>>

\* the wait for the lock times out: execute raises, the with block rolls
\* back and the command ends
RBusy(p) ==
    /\ procs[p].pc = "loop"
    /\ procs[p].todo # <<>>
    /\ Head(procs[p].todo).version > procs[p].version
    /\ LockedByOther(p)
    /\ procs' = [procs EXCEPT ![p] =
                   [@ EXCEPT !.pc = "failed", !.txn = <<>>, !.inTx = FALSE]]
    /\ UNCHANGED <<stateFile, committed, raceFrame>>

\* lines 125-126 in process p: the version is advanced and saved
RSave(p) ==
    /\ procs[p].pc = "loop"
    /\ procs[p].todo = <<>>
    /\ procs' = [procs EXCEPT ![p] =
                   [@ EXCEPT !.pc = "commit",
                             !.version = @ + procs[p].successes]]
    /\ stateFile' = [exists |-> TRUE,
                     version |-> procs[p].version + procs[p].successes,
                     database_uri |-> _load_metadata.database_uri,
                     written |-> NChunks]
    /\ UNCHANGED <<committed, raceFrame>>

\* lines 127-128 in process p
RCommit(p) ==
    /\ procs[p].pc = "commit"
    /\ committed' = [v \in Versions |->
                       committed[v]
                       + Cardinality({ i \in 1..Len(procs[p].txn) :
                                         procs[p].txn[i] = v })]
    /\ procs' = [procs EXCEPT ![p] =
                   [@ EXCEPT !.pc = "done", !.txn = <<>>, !.inTx = FALSE]]
    /\ UNCHANGED <<stateFile, raceFrame>>

NextRace ==
    \/ \E p \in Procs : RStart(p)
    \/ \E p \in Procs : RSkip(p)
    \/ \E p \in Procs : RExec(p)
    \/ \E p \in Procs : RBusy(p)
    \/ \E p \in Procs : RSave(p)
    \/ \E p \in Procs : RCommit(p)

SpecRace == InitRace /\ [][NextRace]_vars

\* ======================================================== properties
\* operation o has just ended with status st and nothing was started since
Finished(o, st) == pc = "idle" /\ result.op = o /\ result.status = st

FileVersion(f) == IF f.exists THEN f.version ELSE 0

RECURSIVE Ascending(_)
Ascending(S) ==
    IF S = {} THEN <<>>
    ELSE LET m == CHOOSE x \in S : \A y \in S : x <= y
         IN <<m>> \o Ascending(S \ {m})

Executed == [i \in 1..Len(execLog) |-> execLog[i].version]

\* executions of revision v made by the last upgrade outside the transaction
Autocommitted(v) ==
    Cardinality({ i \in 1..Len(execLog) :
                    execLog[i].version = v /\ ~execLog[i].inTx })

\* C1: a successful upgrade executes exactly the cataloged revisions with a
\* version greater than the starting state.version, each once and in
\* ascending order, returns their number n and ends with state.version
\* equal to the starting version plus n.
C1_UpgradeAppliesPending ==
    Finished("upgrade", "ok") =>
        /\ Executed = Ascending(pre.pending)
        /\ result.retval = Cardinality(pre.pending)
        /\ version = pre.version + result.retval

C1_Witness ==
    /\ Finished("upgrade", "ok")
    /\ pre.version = 0
    /\ Executed = <<1, 2>>
    /\ version = 2

\* C2: when upgrade succeeds and is called again right away, the second
\* call returns 0, executes no script and leaves state.version unchanged.
C2_UpgradeIdempotent ==
    (Finished("upgrade", "ok") /\ pre.afterOk) =>
        /\ result.retval = 0
        /\ execLog = <<>>
        /\ version = pre.version

\* C3: when a script fails during upgrade the transaction is rolled back
\* (nothing executed inside it is committed and no transaction stays open),
\* the error reaches the caller, and state.version and the state file are
\* what they were before the call.
C3_ScriptFailureRollsBack ==
    (pc = "idle" /\ result.op = "upgrade" /\ result.at = "loop") =>
        /\ result.status = "error"
        /\ txn = <<>> /\ ~inTx
        /\ \A v \in Versions :
              committed[v] = pre.committed[v] + Autocommitted(v)
        /\ version = pre.version
        /\ stateFile = pre.stateFile
        /\ tmp = NoFile

C3_Witness ==
    /\ Finished("upgrade", "error")
    /\ result.at = "loop"
    /\ \E i \in 1..Len(execLog) : execLog[i].inTx
    /\ stateFile.exists

\* C4: whenever upgrade ends with an error, state.version and the version
\* in the state file equal their values from before the call.
C4_FailureLeavesVersion ==
    Finished("upgrade", "error") =>
        /\ version = pre.version
        /\ FileVersion(stateFile) = FileVersion(pre.stateFile)

\* C5: when an upgrade call has ended, the effects of every revision that
\* was pending at its start are committed, or the effects of none are.
C5_AllOrNothing ==
    (Finished("upgrade", "ok") \/ Finished("upgrade", "error")) =>
        \/ \A v \in pre.pending : committed[v] > pre.committed[v]
        \/ \A v \in pre.pending : committed[v] = pre.committed[v]

\* C6: after a crash at any point of upgrade, every revision of the call
\* whose version is at most the version in the state file has its effects
\* committed to the database.
C6_CrashKeepsBoundary ==
    (pc = "dead" /\ result.op = "upgrade") =>
        \A v \in pre.pending :
            v <= FileVersion(stateFile) => committed[v] > 0

\* C7: the state path never holds partial content; until the rename of a
\* save, also after a crash, it holds the complete previous state, and after
\* the rename the complete new state.
C7_SaveAtomic ==
    /\ ~stateFile.exists \/ Complete(stateFile)
    /\ pc \in {"save_open", "save_write", "save_replace"} =>
          stateFile = pre.stateFile
    /\ (pc = "dead" /\ result.at \in {"save_open", "save_write", "save_replace"}) =>
          stateFile = pre.stateFile
    /\ (pc = "commit" \/ Finished("create", "ok")) => stateFile = dump

C7_Witness ==
    /\ pc = "dead"
    /\ result.at = "save_write"
    /\ stateFile.exists
    /\ orphans > 0

\* C8: create_revision fails when a revision file for state.version + 1
\* already exists, and that file is not overwritten (no failure of the
\* file system is involved).
C8_CreateRejectsPending ==
    (pc = "idle" /\ result.op = "create" /\ faults = 0) =>
        /\ pre.nextFiles # {} => result.status = "error"
        /\ pre.nextFiles \subseteq files

\* C9: after any sequence of successful upgrade calls, a cataloged revision
\* has been executed and committed iff its version is <= state.version.
C9_AppliedIffAtMostVersion ==
    (Finished("upgrade", "ok") /\ faults = 0) =>
        \A r \in revisions : (committed[r.version] > 0) <=> (r.version <= version)

\* a step of the engine at hand: no crash, no construction of a new engine
SameEngine == pc # "dead" /\ pc' # "dead" /\ ~(pc' = "idle" /\ result' = NoResult)

\* C10: state.version and the version in the state file never decrease
\* over the operations of an engine.
C10_VersionNeverDecreases ==
    [][SameEngine =>
          /\ version' >= version
          /\ FileVersion(stateFile') >= FileVersion(stateFile)]_vars

\* C12: after a save has ended, by success or by a failure of the write or
\* of the rename, no temporary file of that save remains on disk.
C12_TempCleanedUp ==
    (pc = "idle" /\ result.op \in {"upgrade", "create"}) =>
        /\ tmp = NoFile
        /\ orphans = pre.orphans

\* number of executions of v the last upgrade made inside the transaction
InTransaction(v) ==
    Cardinality({ i \in 1..Len(execLog) :
                    execLog[i].version = v /\ execLog[i].inTx })

\* C13: when upgrade has returned or raised, no transaction is open: what
\* was executed inside the transaction is committed after a return and
\* discarded after an error.
C13_TransactionClosed ==
    (pc = "idle" /\ result.op = "upgrade") =>
        /\ ~inTx
        /\ txn = <<>>
        /\ \A v \in Versions :
              committed[v] = pre.committed[v] + Autocommitted(v)
                             + (IF result.status = "ok" THEN InTransaction(v) ELSE 0)

C13_Witness ==
    /\ Finished("upgrade", "error")
    /\ result.at = "commit"
    /\ \E v \in Versions : InTransaction(v) > 0

\* C14: display prints the files of exactly the revisions with a version
\* greater than state.version, in ascending order, and changes nothing of
\* the engine state, the catalog, the disk and the database.
C14_DisplayPendingOnly ==
    [][result'.op = "display" =>
          /\ [i \in 1..Len(output') |-> output'[i].version]
                = Ascending({ r.version : r \in { q \in revisions : q.version > version } })
          /\ \A i \in 1..Len(output') :
                output'[i] \in files /\ Key(output'[i]) \in revisions
          /\ UNCHANGED <<version, database_uri, revisions, files, stateFile,
                         tmp, orphans, committed, txn, inTx>>]_vars

C14_Witness ==
    /\ Finished("display", "ok")
    /\ Len(output) = 1
    /\ version > 0
    /\ \E r \in revisions : r.version <= version

\* C15: create_revision leaves state.version, database_uri and the catalog
\* as they are, names the new file for state.version + 1, and the state file
\* it writes holds the in-memory state.
C15_CreateKeepsState ==
    [][((op = "create" \/ op' = "create") /\ pc' # "dead") =>
          /\ UNCHANGED <<version, database_uri, revisions>>
          /\ (result'.op = "create" /\ result'.status = "ok") =>
                /\ stateFile' = dump
                /\ result'.retval = version + 1
                /\ \E f \in files :
                      f.version = version + 1 /\ f.stamp = clock]_vars

C15_Witness ==
    /\ Finished("create", "ok")
    /\ version > 0
    /\ database_uri = CONNECTION_URI
    /\ pre.stateFile # stateFile

\* C18: over successful upgrade calls, with no failure and no crash, no
\* revision is executed more than once.
C18_ExecutedAtMostOnce ==
    faults = 0 =>
        \A v \in Versions :
            committed[v] + Cardinality({ i \in 1..Len(txn) : txn[i] = v }) <= 1

\* C19: when the pending versions are the run state.version+1 .. n, a
\* successful upgrade ends with state.version = n, nothing pending and
\* is_next_revision_taken false.
C19_ContiguousReachesTop ==
    (Finished("upgrade", "ok")
       /\ pre.pending = (pre.version + 1)..(pre.version + Cardinality(pre.pending))) =>
        /\ version = pre.version + Cardinality(pre.pending)
        /\ \A r \in revisions : r.version <= version
        /\ ~is_next_revision_taken

C19_Witness ==
    /\ Finished("upgrade", "ok")
    /\ pre.version > 0
    /\ Cardinality(pre.pending) >= 1
    /\ pre.pending = (pre.version + 1)..(pre.version + Cardinality(pre.pending))

\* a step in which a migrate command returns or starts to create a file
MigrateStep ==
    /\ pc \in {"idle", "dead"}
    /\ \/ op' = "migrate"
       \/ pc' = "idle" /\ result'.op = "migrate" /\ result'.status = "taken"

\* C17: once a migrate command has created the file for state.version + 1,
\* every later migrate command issued before a successful upgrade finds
\* is_next_revision_taken true, creates no file and leaves the revision
\* files and the state file as they are.
C17_MigrateStaysBlocked ==
    [][(MigrateStep /\ staged # 0) =>
          /\ result'.status = "taken"
          /\ files' = files
          /\ stateFile' = stateFile]_vars

\* C11: no engine is constructed from a directory in which two revision
\* files have the same version.
C11_DuplicateVersionRejected ==
    pc = "idle" =>
        \A f1, f2 \in files : f1.version = f2.version => f1 = f2

RECURSIVE Descending(_)
Descending(S) ==
    IF S = {} THEN <<>>
    ELSE LET m == CHOOSE x \in S : \A y \in S : x >= y
         IN <<m>> \o Descending(S \ {m})

Listed == [i \in 1..Len(output) |-> output[i].version]

CatalogVersions == { r.version : r \in revisions }

\* C16 as stated: the listing is ascending by version when reverse is not
\* requested and descending when it is.
C16_LogAscendingByDefault ==
    /\ Finished("log", "ok") => Listed = Ascending(CatalogVersions)
    /\ Finished("log_reverse", "ok") => Listed = Descending(CatalogVersions)

\* C16 amended: the listing holds all cataloged revisions, descending by
\* version when reverse is not requested and ascending when it is.
C16_LogDescendingByDefault ==
    /\ Finished("log", "ok") => Listed = Descending(CatalogVersions)
    /\ Finished("log_reverse", "ok") => Listed = Ascending(CatalogVersions)

C16_Witness ==
    /\ Finished("log", "ok")
    /\ Len(output) >= 2
    /\ output[1].version > output[2].version

\* C20: nothing keeps two upgrade commands apart: when both processes have
\* loaded the same state.version and both have returned, every revision
\* that was pending at that version has been executed by each of them.
C20_RaceExecutesTwice ==
    (/\ \A p \in Procs : procs[p].pc = "done"
     /\ \A p, q \in Procs : procs[p].loaded = procs[q].loaded) =>
        \A f \in files :
            (\A p \in Procs : f.version > procs[p].loaded) =>
                committed[f.version] = Cardinality(Procs)

C20_Witness ==
    /\ \A p \in Procs : procs[p].pc = "done" /\ procs[p].loaded = 0
    /\ \E f \in files : committed[f.version] = 2
    /\ stateFile.exists

====
